---- MODULE Spec2Model ----
(***************************************************************************)
(* Sparse Merkle tree of Janmajayamall/smt (src/src/lib.rs and helpers).   *)
(*                                                                         *)
(* Byte strings are sequences of naturals below 256.  A digest produced by *)
(* the hasher is kept symbolic, <<"keccak", preimage>>, so the hash is     *)
(* injective (collision resistance) and the preimage of the all-zero       *)
(* digest is unknown.  The bytes of a digest are read only for paths       *)
(* (digests of keys); keccak_bytes gives them.  A node payload, the byte   *)
(* string prefix ++ field ++ field, is the triple <<prefix, field, field>>.*)
(***************************************************************************)
EXTENDS Integers, Sequences, FiniteSets, TLC

VARIABLES root, nodes, values, last, kv, hist

vars == <<root, nodes, values, last, kv, hist>>

(***************************** bounds **************************************)
\* bytes of a digest (32 for Keccak-256 in the repository)
OutputSize == 1
\* keys are the one-byte strings <<0>> .. <<NKeys-1>>
NKeys == 3
\* values are the one-byte strings <<1>> .. <<NVals>>
NVals == 2

Keys == {<<k>> : k \in 0 .. (NKeys - 1)}
Values == {<<v>> : v \in 1 .. NVals}

(************************** keccak_hasher.rs *******************************)
\* First byte of the digest of each key: 0x00 and 0x02 share 6 leading bits,
\* 0x80 and 0xC0 share 1, 0x40 and 0x41 share 7.
HashTable == <<0, 2, 128, 192, 64, 65, 255, 1>>

hash(data) == <<"keccak", data>>

output_size == OutputSize

\* The bytes of the digest of a key (a one-byte string).
keccak_bytes(d) ==
    [j \in 1 .. output_size |->
        IF j = 1 THEN HashTable[(d[2][1] % Len(HashTable)) + 1]
        ELSE (d[2][1] * 7 + j) % 256]

(***************************** utils.rs ************************************)
get_msb_at(data, position) ==
    LET index == position \div 8
        p == position % 8
    IN  IF (data[index + 1] \div (2 ^ (7 - (p % 8)))) % 2 > 0 THEN 1 ELSE 0

RECURSIVE common_prefix_from(_, _, _)
common_prefix_from(v1, v2, i) ==
    IF i >= Len(v1) * 8 THEN i
    ELSE IF get_msb_at(v1, i) # get_msb_at(v2, i) THEN i
    ELSE common_prefix_from(v1, v2, i + 1)

common_prefix(v1, v2) == common_prefix_from(v1, v2, 0)

(*************************** tree_hasher.rs ********************************)
NODE_PREFIX == 1
LEAF_PREFIX == 0

\* vec![0; hasher.output_size()]: a run of output_size zero bytes
zero_hash == <<"zero", output_size>>

tree_hasher_path(key) == hash(key)

digest(data) == hash(data)

\* Mutant of digest_node: the digest is taken before the prefix is added.
digest_node_unprefixed(left, right) ==
    <<hash(<<left, right>>), <<NODE_PREFIX, left, right>>>>

digest_node(left, right) ==
    LET data == <<NODE_PREFIX, left, right>>
    IN  <<hash(data), data>>

digest_leaf(p, value) ==
    LET data == <<LEAF_PREFIX, p, value>>
    IN  <<hash(data), data>>

parse_leaf(data) == <<data[2], data[3]>>

parse_node(data) == <<data[2], data[3]>>

is_leaf(data) == data[1] = LEAF_PREFIX

(************************ KvStore (rocksdb_kv.rs) **************************)
\* A store is a function from keys to values.  A running operation carries
\* st = [nodes, values, calls, err, fail]: the two stores, the store calls
\* issued so far, whether a call has returned Err (the ? operator then
\* returns from the operation: every later call is skipped), and the index
\* of the call that fails with an I/O error (0: none).
EmptyStore == [x \in {} |-> <<>>]

StorePut(f, k, v) == [x \in (DOMAIN f) \cup {k} |-> IF x = k THEN v ELSE f[x]]

StoreDel(f, k) == [x \in (DOMAIN f) \ {k} |-> f[x]]

Begin(self, fail) ==
    [nodes |-> self.nodes, values |-> self.values, calls |-> <<>>, err |-> FALSE,
     fail |-> fail]

Call(st, c) ==
    IF st.err THEN st
    ELSE IF Len(st.calls) + 1 = st.fail
         THEN [st EXCEPT !.calls = Append(@, c), !.err = TRUE]
    ELSE [st EXCEPT !.calls = Append(@, c)]

\* get: Err when the key has no record
kv_get(st, store, k) ==
    LET s1 == Call(st, [store |-> store, op |-> "get", k |-> k, v |-> <<>>])
    IN  IF s1.err THEN [st |-> s1, val |-> <<>>]
        ELSE IF k \notin DOMAIN s1[store]
             THEN [st |-> [s1 EXCEPT !.err = TRUE], val |-> <<>>]
        ELSE [st |-> s1, val |-> s1[store][k]]

kv_insert(st, store, k, v) ==
    LET s1 == Call(st, [store |-> store, op |-> "insert", k |-> k, v |-> v])
    IN  IF s1.err THEN s1 ELSE [s1 EXCEPT ![store] = StorePut(@, k, v)]

kv_delete(st, store, k) ==
    LET s1 == Call(st, [store |-> store, op |-> "delete", k |-> k, v |-> <<>>])
    IN  IF s1.err THEN s1 ELSE [s1 EXCEPT ![store] = StoreDel(@, k)]

(******************************* lib.rs ************************************)
\* self is the tree [root, nodes, values]; an operation returns the stores in
\* its st and the new self.root.
DEFAULT_VALUE == <<>>

new == [root |-> zero_hash, nodes |-> EmptyStore, values |-> EmptyStore]

depth == output_size * 8

placeholder == zero_hash

\* Mutant of Reverse: the lists stay in the order of the descent.
not_reversed(s) == s

\* Lines 122-123
Reverse(s) == [i \in 1 .. Len(s) |-> s[Len(s) + 1 - i]]

\* The loop of sidenodes (lines 95-120), from iteration i with `node` the
\* internal node reached; sn and pn are sidenodes and pathnodes so far.
RECURSIVE sidenodes_loop(_, _, _, _, _, _)
sidenodes_loop(st, p, i, node, sn, pn) ==
    IF i >= depth THEN [st |-> st, sn |-> sn, pn |-> pn, node |-> node]
    ELSE
      LET lr == parse_node(node)
          left == lr[1]
          right == lr[2]
          goLeft == get_msb_at(keccak_bytes(p), i) = 0
          k_pathnode == IF goLeft THEN left ELSE right
          k_sidenode == IF goLeft THEN right ELSE left
          sn1 == Append(sn, k_sidenode)
          pn1 == Append(pn, k_pathnode)
          g == kv_get(st, "nodes", k_pathnode)
      IN  IF k_pathnode = placeholder
          THEN [st |-> st, sn |-> sn1, pn |-> pn1, node |-> DEFAULT_VALUE]
          ELSE IF g.st.err
               THEN [st |-> g.st, sn |-> sn1, pn |-> pn1, node |-> DEFAULT_VALUE]
          ELSE IF is_leaf(g.val)
               THEN [st |-> g.st, sn |-> sn1, pn |-> pn1, node |-> g.val]
          ELSE sidenodes_loop(g.st, p, i + 1, g.val, sn1, pn1)

\* sidenodes(root, path): [st, sn (sidenodes), pn (pathnodes), node]
sidenodes(st, r, p) ==
    LET g == kv_get(st, "nodes", r)
        w == sidenodes_loop(g.st, p, 0, g.val, <<>>, <<r>>)
    IN  IF r = placeholder
        THEN [st |-> st, sn |-> <<>>, pn |-> <<r>>, node |-> DEFAULT_VALUE]
        ELSE IF g.st.err
             THEN [st |-> g.st, sn |-> <<>>, pn |-> <<r>>, node |-> DEFAULT_VALUE]
        ELSE IF is_leaf(g.val)
             THEN [st |-> g.st, sn |-> <<>>, pn |-> <<r>>, node |-> g.val]
        ELSE [st |-> w.st, sn |-> Reverse(w.sn), pn |-> Reverse(w.pn), node |-> w.node]

\* Mutant of delete_stale: the stale pathnodes are left in the store.
delete_stale_none(st, pn, i) == st

\* Mutant of delete_stale: the first pathnode is deleted too.
RECURSIVE delete_stale_all(_, _, _)
delete_stale_all(st, pn, i) ==
    IF i >= Len(pn) THEN st
    ELSE delete_stale_all(kv_delete(st, "nodes", pn[i + 1]), pn, i + 1)

\* Lines 209-213: delete every pathnode but the first (i is the 0-based index).
RECURSIVE delete_stale(_, _, _)
delete_stale(st, pn, i) ==
    IF i >= Len(pn) THEN st
    ELSE delete_stale(IF i # 0 THEN kv_delete(st, "nodes", pn[i + 1]) ELSE st, pn, i + 1)

\* Mutant of extend: the levels between the traversal and the pair of leaves
\* are never extended.
extend_never(common_prefix_len, i) == FALSE

\* Mutant of extend: the extension reaches one level too far.
extend_one_more(common_prefix_len, i) ==
    common_prefix_len # depth /\ common_prefix_len >= depth - i - 1

\* Line 219: level i, not reached by the traversal, gets a placeholder sidenode.
extend(common_prefix_len, i) ==
    common_prefix_len # depth /\ common_prefix_len > depth - i - 1

\* Lines 215-238: the upward rehash of _update from iteration i.
RECURSIVE rehash(_, _, _, _, _, _)
rehash(st, p, sn, common_prefix_len, i, curr_hash) ==
    IF i >= depth THEN [st |-> st, ret |-> curr_hash]
    ELSE
      LET leaf_offset == depth - Len(sn)
          sidenode == IF i < leaf_offset THEN placeholder ELSE sn[i - leaf_offset + 1]
          d == IF get_msb_at(keccak_bytes(p), depth - i - 1) = 0
               THEN digest_node(curr_hash, sidenode)
               ELSE digest_node(sidenode, curr_hash)
      IN  IF i < leaf_offset /\ ~extend(common_prefix_len, i)
          THEN rehash(st, p, sn, common_prefix_len, i + 1, curr_hash)
          ELSE rehash(kv_insert(st, "nodes", d[1], d[2]), p, sn, common_prefix_len,
                      i + 1, d[1])

\* Mutant of no_update: an equal value hash is not recognised.
no_update_never(pathnode_value_hash, val_hash) == FALSE

\* Line 198: the leaf at the end of the path already holds the value hash.
no_update(pathnode_value_hash, val_hash) == pathnode_value_hash = val_hash

\* Mutant of set_value: the value record is not written.
set_value_skipped(st, p, value) == st

\* Line 241
set_value(st, p, value) == kv_insert(st, "values", p, value)

\* _update: [st, ret]
_update(self, st0, p, value, sn, pn, old_data) ==
    LET val_hash == digest(value)
        leaf == digest_leaf(p, val_hash)
        st1 == kv_insert(st0, "nodes", leaf[1], leaf[2])
        isPlaceholder == pn[1] = placeholder
        parsed == parse_leaf(old_data)
        pathnode_value_hash == IF isPlaceholder THEN DEFAULT_VALUE ELSE parsed[2]
        common_prefix_len ==
            IF isPlaceholder THEN depth
            ELSE common_prefix(keccak_bytes(parsed[1]), keccak_bytes(p))
        pair == IF get_msb_at(keccak_bytes(p), common_prefix_len) = 0
                THEN digest_node(leaf[1], pn[1])
                ELSE digest_node(pn[1], leaf[1])
        caseA == common_prefix_len # depth
        caseB == ~caseA /\ pathnode_value_hash # DEFAULT_VALUE
        st2 == IF caseA THEN kv_insert(st1, "nodes", pair[1], pair[2])
               ELSE IF caseB
                    THEN kv_delete(kv_delete(st1, "nodes", pn[1]), "values", p)
               ELSE st1
        curr_hash == IF caseA THEN pair[1] ELSE leaf[1]
        st3 == delete_stale(st2, pn, 0)
        up == rehash(st3, p, sn, common_prefix_len, 0, curr_hash)
        st4 == set_value(up.st, p, value)
    IN  IF caseB /\ no_update(pathnode_value_hash, val_hash)
        THEN [st |-> st1, ret |-> self.root]
        ELSE [st |-> st4, ret |-> up.ret]

\* Lines 262-264: delete all pathnodes.
RECURSIVE delete_pathnodes(_, _, _)
delete_pathnodes(st, pn, i) ==
    IF i >= Len(pn) THEN st
    ELSE delete_pathnodes(kv_delete(st, "nodes", pn[i + 1]), pn, i + 1)

\* Line 279 (negated): a placeholder sidenode below the first real one is
\* passed over.
skip_placeholder(sidenode) == sidenode = placeholder

\* Mutant of bubble_up: a leaf sidenode is left in place like an internal one.
bubble_up_never(node) == FALSE

\* Line 281: the first real sidenode is a leaf, which bubbles up.
bubble_up(node) == is_leaf(node)

\* Mutant of initial_curr_hash: the empty byte string of the first revision
\* (main.rs line 222).
initial_curr_hash_empty == <<>>

\* Line 274
initial_curr_hash == placeholder

\* Lines 277-302: the collapse loop of _delete from iteration i.
RECURSIVE collapse(_, _, _, _, _, _)
collapse(st, p, sn, i, curr_hash, flag) ==
    IF i >= Len(sn) THEN [st |-> st, ret |-> curr_hash]
    ELSE
      LET s == sn[i + 1]
          g == kv_get(st, "nodes", s)
          d == IF get_msb_at(keccak_bytes(p), Len(sn) - i - 1) = 0
               THEN digest_node(curr_hash, s)
               ELSE digest_node(s, curr_hash)
      IN  IF ~flag /\ skip_placeholder(s)
          THEN collapse(st, p, sn, i + 1, curr_hash, flag)
          ELSE IF ~flag /\ curr_hash = placeholder
               THEN IF g.st.err THEN [st |-> g.st, ret |-> curr_hash]
                    ELSE IF bubble_up(g.val)
                         THEN collapse(g.st, p, sn, i + 1, s, flag)
                    ELSE collapse(kv_insert(g.st, "nodes", d[1], d[2]), p, sn,
                                  i + 1, d[1], TRUE)
          ELSE collapse(kv_insert(st, "nodes", d[1], d[2]), p, sn, i + 1, d[1], TRUE)

\* Mutant of _delete: the value record is deleted before the pathnodes.
_delete_value_first(self, st0, p, sn, pn) ==
    LET st1 == kv_delete(st0, "values", p)
        st2 == delete_pathnodes(st1, pn, 0)
        c == collapse(st2, p, sn, 0, initial_curr_hash, FALSE)
    IN  IF pn[1] = placeholder
        THEN [st |-> st0, ret |-> self.root]
        ELSE [st |-> c.st, ret |-> c.ret]

\* _delete: [st, ret]
_delete(self, st0, p, sn, pn) ==
    LET st1 == delete_pathnodes(st0, pn, 0)
        c == collapse(st1, p, sn, 0, initial_curr_hash, FALSE)
        st2 == kv_delete(c.st, "values", p)
    IN  IF pn[1] = placeholder
        THEN [st |-> st0, ret |-> self.root]
        ELSE [st |-> st2, ret |-> c.ret]

\* Mutant of commit: the digest computed so far is stored as the root even
\* when a store call failed.
commit_always(self, r) == r.ret

\* Lines 323 and 325, self.root = ...?: the assignment is reached only when
\* the mutation returned Ok.
commit(self, r) == IF r.st.err THEN self.root ELSE r.ret

\* update_for_root: [st, root (self.root afterwards), t (the traversal)]
update_for_root(self, key, value, fail) ==
    LET p == tree_hasher_path(key)
        t == sidenodes(Begin(self, fail), self.root, p)
        r == IF value = DEFAULT_VALUE
             THEN _delete(self, t.st, p, t.sn, t.pn)
             ELSE _update(self, t.st, p, value, t.sn, t.pn, t.node)
    IN  IF t.st.err THEN [st |-> t.st, root |-> self.root, t |-> t]
        ELSE [st |-> r.st, root |-> commit(self, r), t |-> t]

update(self, key, value, fail) == update_for_root(self, key, value, fail)

\* Mutant of delete: the one-byte string that get returns for an empty tree
\* is passed instead of the empty string.
delete_zero_byte(self, key, fail) == update_for_root(self, key, <<0>>, fail)

delete(self, key, fail) == update_for_root(self, key, DEFAULT_VALUE, fail)

\* get: [st, val]
get(self, key, fail) ==
    IF self.root = placeholder THEN [st |-> Begin(self, fail), val |-> <<0>>]
    ELSE kv_get(Begin(self, fail), "values", tree_hasher_path(key))

\* utils.rs set_msb_at: data[index] |= 1 << (7 - position % 8).  The index is
\* not checked against the length: beyond it the indexing panics.
\* [panic, data]
set_msb_at(data, position) ==
    LET index == position \div 8
        bit == 2 ^ (7 - (position % 8))
    IN  IF index >= Len(data) THEN [panic |-> TRUE, data |-> data]
        ELSE [panic |-> FALSE,
              data |-> [data EXCEPT ![index + 1] =
                           IF (@ \div bit) % 2 = 1 THEN @ ELSE @ + bit]]

\* Mutant of non_membership: the payload of the terminal leaf instead of its
\* digest.
non_membership_payload(p, pn, leaf_data) ==
    IF pn[1] # placeholder /\ parse_leaf(leaf_data)[1] # p THEN leaf_data ELSE <<>>

\* Mutant of non_membership: the terminal pathnode whatever it is.
non_membership_unchecked(p, pn, leaf_data) == pn[1]

\* Lines 345-356: the non-membership leaf of a proof.
non_membership(p, pn, leaf_data) ==
    IF pn[1] # placeholder /\ parse_leaf(leaf_data)[1] # p THEN pn[1] ELSE <<>>

\* generate_proof: [st, sidenodes, non_membership_leaf_node]
generate_proof(self, key, r, fail) ==
    LET p == tree_hasher_path(key)
        t == sidenodes(Begin(self, fail), r, p)
    IN  IF t.st.err
        THEN [st |-> t.st, sidenodes |-> <<>>, non_membership_leaf_node |-> <<>>]
        ELSE [st |-> t.st, sidenodes |-> t.sn,
              non_membership_leaf_node |-> non_membership(p, t.pn, t.node)]

\* Lines 373-379: the loop over the sidenodes of the proof from 0-based index.
\* [panic, compact_sidenodes, bitmask]
RECURSIVE compact_loop(_, _, _, _)
compact_loop(sn, index, compact_sidenodes, bitmask) ==
    IF index >= Len(sn)
    THEN [panic |-> FALSE, compact_sidenodes |-> compact_sidenodes,
          bitmask |-> bitmask]
    ELSE IF sn[index + 1] # placeholder
         THEN compact_loop(sn, index + 1, Append(compact_sidenodes, sn[index + 1]),
                           bitmask)
    ELSE LET m == set_msb_at(bitmask, index)
         IN  IF m.panic
             THEN [panic |-> TRUE, compact_sidenodes |-> compact_sidenodes,
                   bitmask |-> bitmask]
             ELSE compact_loop(sn, index + 1, compact_sidenodes, m.data)

\* generate_compact_proof:
\* [st, panic, compact_sidenodes, bitmask, non_membership_leaf_node]
generate_compact_proof(self, key, r, fail) ==
    LET proof == generate_proof(self, key, r, fail)
        c == compact_loop(proof.sidenodes, 0, <<>>, <<>>)
    IN  IF proof.st.err
        THEN [st |-> proof.st, panic |-> FALSE, compact_sidenodes |-> <<>>,
              bitmask |-> <<>>, non_membership_leaf_node |-> <<>>]
        ELSE [st |-> proof.st, panic |-> c.panic,
              compact_sidenodes |-> c.compact_sidenodes, bitmask |-> c.bitmask,
              non_membership_leaf_node |-> proof.non_membership_leaf_node]

(************************ history of the calls *****************************)
\* last: the last call of the API, its result (ret: the root returned by
\*       update and delete, the value returned by get) and where its
\*       traversal ended (term): at a "placeholder", at the leaf of "other"
\*       key, or at the leaf of the key of the call, which holds the "same"
\*       value hash as the call or not ("own").
\* kv:   the map the successful calls describe (for each key its last
\*       update, unless a delete of the key followed).
\* hist: phase "updates" while only updates have been called, "deletes"
\*       while these were followed only by deletes of keys of kv, "mixed"
\*       afterwards; fresh: no key was updated twice; ins: the keys updated;
\*       clean: every update and delete returned Ok.
NoCall ==
    [op |-> "new", key |-> <<>>, value |-> <<>>, ok |-> TRUE, ret |-> <<>>,
     term |-> "none"]

Terminal(t, key, value) ==
    IF t.st.err THEN "none"
    ELSE IF t.pn[1] = placeholder THEN "placeholder"
    ELSE IF parse_leaf(t.node)[1] # tree_hasher_path(key) THEN "other"
    ELSE IF value # DEFAULT_VALUE /\ parse_leaf(t.node)[2] = digest(value) THEN "same"
    ELSE "own"

Mixed(clean) == [phase |-> "mixed", fresh |-> FALSE, ins |-> {}, clean |-> clean]

HistUpdate(key, ok) ==
    IF ok /\ hist.phase = "updates"
    THEN [hist EXCEPT !.fresh = @ /\ key \notin hist.ins, !.ins = @ \cup {key}]
    ELSE Mixed(hist.clean /\ ok)

HistDelete(key, ok) ==
    IF ok /\ hist.phase \in {"updates", "deletes"} /\ key \in DOMAIN kv
    THEN [hist EXCEPT !.phase = "deletes"]
    ELSE Mixed(hist.clean /\ ok)

(***************************** the machine *********************************)
Self == [root |-> root, nodes |-> nodes, values |-> values]

\* An action binds the result of its call once (\E r \in {call}).
Init ==
    /\ root = new.root
    /\ nodes = new.nodes
    /\ values = new.values
    /\ last = NoCall
    /\ kv = EmptyStore
    /\ hist = [phase |-> "updates", fresh |-> TRUE, ins |-> {}, clean |-> TRUE]

Mutate(op, key, value, r) ==
    /\ root' = r.root
    /\ nodes' = r.st.nodes
    /\ values' = r.st.values
    /\ last' = [op |-> op, key |-> key, value |-> value, ok |-> ~r.st.err,
                ret |-> IF r.st.err THEN <<>> ELSE r.root,
                term |-> Terminal(r.t, key, value)]

Update(key, value) ==
    \E r \in {update(Self, key, value, 0)} :
        /\ Mutate("update", key, value, r)
        /\ kv' = IF r.st.err THEN kv ELSE StorePut(kv, key, value)
        /\ hist' = HistUpdate(key, ~r.st.err)

Delete(key) ==
    \E r \in {delete(Self, key, 0)} :
        /\ Mutate("delete", key, DEFAULT_VALUE, r)
        /\ kv' = IF r.st.err THEN kv ELSE StoreDel(kv, key)
        /\ hist' = HistDelete(key, ~r.st.err)

Get(key) ==
    \E r \in {get(Self, key, 0)} :
        /\ last' = [NoCall EXCEPT !.op = "get", !.key = key, !.ok = ~r.st.err,
                                  !.ret = r.val]
        /\ UNCHANGED <<root, nodes, values, kv, hist>>

Next ==
    \E key \in Keys :
        \/ \E value \in Values : Update(key, value)
        \/ Delete(key)
        \/ Get(key)

Spec == Init /\ [][Next]_vars

\* The mutations alone: update and delete.
NextMutation ==
    \E key \in Keys :
        \/ \E value \in Values : Update(key, value)
        \/ Delete(key)

SpecMutation == Init /\ [][NextMutation]_vars

\* The proofs are generated against the current root.
GenerateProof(key) ==
    \E r \in {generate_proof(Self, key, root, 0)} :
        /\ last' = [NoCall EXCEPT !.op = "proof", !.key = key, !.ok = ~r.st.err,
                                  !.ret = <<r.sidenodes, r.non_membership_leaf_node>>]
        /\ UNCHANGED <<root, nodes, values, kv, hist>>

GenerateCompactProof(key) ==
    \E r \in {generate_compact_proof(Self, key, root, 0)} :
        /\ last' = [NoCall EXCEPT !.op = "compact", !.key = key,
                                  !.ok = ~r.st.err /\ ~r.panic,
                                  !.ret = <<r.compact_sidenodes, r.bitmask,
                                            r.non_membership_leaf_node>>]
        /\ UNCHANGED <<root, nodes, values, kv, hist>>

NextProof ==
    \E key \in Keys :
        \/ \E value \in Values : Update(key, value)
        \/ Delete(key)
        \/ GenerateProof(key)

SpecProof == Init /\ [][NextProof]_vars

NextCompactProof ==
    \E key \in Keys :
        \/ \E value \in Values : Update(key, value)
        \/ Delete(key)
        \/ GenerateCompactProof(key)

SpecCompactProof == Init /\ [][NextCompactProof]_vars

\* update called with a zero-length value
UpdateEmpty(key) ==
    \E r \in {update(Self, key, DEFAULT_VALUE, 0)} :
        /\ Mutate("update", key, DEFAULT_VALUE, r)
        /\ kv' = IF r.st.err THEN kv ELSE StoreDel(kv, key)
        /\ hist' = HistDelete(key, ~r.st.err)

NextEmptyValue ==
    \E key \in Keys :
        \/ \E value \in Values : Update(key, value)
        \/ UpdateEmpty(key)
        \/ Delete(key)

SpecEmptyValue == Init /\ [][NextEmptyValue]_vars

\* A store call of update or delete returns an I/O error: call number f of
\* the operation fails.
UpdateFails(key, value, f) ==
    \E r \in {update(Self, key, value, f)} :
        /\ Mutate("update", key, value, r)
        /\ kv' = kv
        /\ hist' = HistUpdate(key, FALSE)

DeleteFails(key, f) ==
    \E r \in {delete(Self, key, f)} :
        /\ Mutate("delete", key, DEFAULT_VALUE, r)
        /\ kv' = kv
        /\ hist' = HistDelete(key, FALSE)

\* Calls are made until one returns an error: the caller, to whom the state
\* of the stores is then unknown, makes no further call on this tree.
NextFault ==
    /\ hist.clean
    /\ \E key \in Keys :
          \/ \E value \in Values : Update(key, value)
          \/ Delete(key)
          \/ \E value \in Values :
                \E f \in 1 .. Len(update(Self, key, value, 0).st.calls) :
                    UpdateFails(key, value, f)
          \/ \E f \in 1 .. Len(delete(Self, key, 0).st.calls) : DeleteFails(key, f)

SpecFault == Init /\ [][NextFault]_vars

(************************ utils.rs, set_msb_at alone ************************)
\* the byte strings passed to set_msb_at have at most MaxBytes bytes
MaxBytes == 2

ByteValues == {0, 1, 21, 128, 255}

ByteStrings == UNION {[1 .. n -> ByteValues] : n \in 0 .. MaxBytes}

\* the positions of the bits of MaxBytes + 1 bytes
Positions == 0 .. (8 * (MaxBytes + 1) - 1)

\* A call set_msb_at(&mut data, position), recorded in last: key is the data
\* passed, value the position, ok whether the call returned, ret the data
\* afterwards.
SetMsbAt(data, position) ==
    \E r \in {set_msb_at(data, position)} :
        /\ last' = [NoCall EXCEPT !.op = "set_msb_at", !.key = data,
                                  !.value = <<position>>, !.ok = ~r.panic,
                                  !.ret = r.data]
        /\ UNCHANGED <<root, nodes, values, kv, hist>>

NextBits == \E data \in ByteStrings : \E position \in Positions : SetMsbAt(data, position)

SpecBits == Init /\ [][NextBits]_vars

(*************************** checked properties ****************************)
After(self, key, value) ==
    LET r == update(self, key, value, 0)
    IN  [root |-> r.root, nodes |-> r.st.nodes, values |-> r.st.values]

\* The tree after update(order[i], m[order[i]]) for i = 1, 2, ... on `self`.
RECURSIVE UpdatesFrom(_, _, _)
UpdatesFrom(self, m, order) ==
    IF order = <<>> THEN self
    ELSE UpdatesFrom(After(self, Head(order), m[Head(order)]), m, Tail(order))

Perms(S) ==
    {f \in [1 .. Cardinality(S) -> S] : \A x \in S : \E i \in DOMAIN f : f[i] = x}

Ascending(S) ==
    CHOOSE f \in Perms(S) : \A i, j \in DOMAIN f : i < j => f[i][1] < f[j][1]

\* The payloads of the leaves reachable from digest d in the node store.
RECURSIVE ReachableLeaves(_, _)
ReachableLeaves(store, d) ==
    IF d = placeholder \/ d \notin DOMAIN store THEN {}
    ELSE IF is_leaf(store[d]) THEN {store[d]}
    ELSE ReachableLeaves(store, parse_node(store[d])[1])
            \cup ReachableLeaves(store, parse_node(store[d])[2])

LeafOf(key, value) == digest_leaf(tree_hasher_path(key), digest(value))

\* The traversal sidenodes(root, path(key)) in the current state.
Traverse(key) == sidenodes(Begin(Self, 0), root, tree_hasher_path(key))

Writes(calls) == SelectSeq(calls, LAMBDA c : c.op # "get")

\* C1: updates of pairwise distinct keys, one per pair, on a new tree give
\* the same root in whatever order the pairs are applied: the root reached
\* equals the root of every permutation of the same pairs.
C1_RootIndependentOfOrder ==
    (hist.phase = "updates" /\ hist.fresh /\ hist.clean) =>
        \A order \in Perms(DOMAIN kv) : UpdatesFrom(new, kv, order).root = root

C1_Witness ==
    /\ hist.phase = "updates" /\ hist.fresh /\ hist.clean
    /\ Cardinality(DOMAIN kv) >= 3
    /\ last.op = "update" /\ last.key = <<0>>

\* C2: after any sequence of successful updates and deletes the root equals
\* the root that updates alone give on a new tree for the resulting map.
C2_RootMatchesInsertOnly ==
    hist.clean => root = UpdatesFrom(new, kv, Ascending(DOMAIN kv)).root

\* C3: delete of a key that has no leaf returns the root unchanged, whether
\* the traversal ended at a placeholder or at the leaf of another key, and
\* that other leaf stays reachable from the root.
C3_DeleteAbsentKeepsRoot ==
    [][(last'.op = "delete" /\ last'.ok /\ last'.term \in {"placeholder", "other"}) =>
          /\ root' = root
          /\ last'.ret = root
          /\ last'.term = "other" =>
                Traverse(last'.key).node \in ReachableLeaves(nodes', root')]_vars

\* C4: a path has a record in the value store iff a leaf with that path is
\* reachable from the root.
C4_ValueConsistency ==
    hist.clean =>
        DOMAIN values = {parse_leaf(l)[1] : l \in ReachableLeaves(nodes, root)}

\* C5: right after a successful update(k, v), get(k) returns Ok(v).
C5_GetReturnsUpdatedValue ==
    (last.op = "update" /\ last.ok) =>
        LET r == get(Self, last.key, 0)
        IN  ~r.st.err /\ r.val = last.value

\* the update found the leaf of the key with the same value hash
C5_Witness ==
    /\ last.op = "update" /\ last.ok
    /\ last.term = "same"
    /\ Cardinality(DOMAIN kv) >= 2

\* C6: right after a successful delete(k) the value store has no record at
\* path(k), and get(k) does not return a value written for k.
C6_DeleteClearsValue ==
    (hist.clean /\ last.op = "delete" /\ last.ok) =>
        /\ tree_hasher_path(last.key) \notin DOMAIN values
        /\ LET r == get(Self, last.key, 0)
           IN  r.st.err \/ r.val \notin Values

\* C7: get of a key without a leaf in the tree returns Ok with the empty
\* byte string, on a new tree and on a non-empty tree.
C7_GetAbsentReturnsEmpty ==
    \A key \in Keys :
        (\A l \in ReachableLeaves(nodes, root) :
             parse_leaf(l)[1] # tree_hasher_path(key)) =>
            LET r == get(Self, key, 0)
            IN  ~r.st.err /\ r.val = DEFAULT_VALUE

\* C8: update(k, v) that finds the leaf of k with value hash H(v) leaves the
\* root and both stores as they were, and its only write to a store is the
\* insert of the leaf record that the node store already holds.
C8_SameValueUpdateIsNoOp ==
    [][(last'.op = "update" /\ last'.ok /\ last'.term = "same") =>
          LET leaf == LeafOf(last'.key, last'.value)
              r == update(Self, last'.key, last'.value, 0)
          IN  /\ Traverse(last'.key).node = leaf[2]
              /\ root' = root /\ last'.ret = root
              /\ nodes' = nodes
              /\ values' = values
              /\ leaf[1] \in DOMAIN nodes /\ nodes[leaf[1]] = leaf[2]
              /\ Writes(r.st.calls) =
                    <<[store |-> "nodes", op |-> "insert", k |-> leaf[1],
                       v |-> leaf[2]]>>]_vars

C8_Witness ==
    /\ last.op = "update" /\ last.ok
    /\ last.term = "same"
    /\ last.ret = root
    /\ Cardinality(ReachableLeaves(nodes, root)) >= 2

\* C9: updates of distinct keys on an empty tree, then deletes of all of
\* them but one: the root is the digest of the leaf of the key that is left.
C9_SurvivorIsRoot ==
    (hist.phase \in {"updates", "deletes"} /\ hist.fresh /\ hist.clean
        /\ Cardinality(DOMAIN kv) = 1) =>
        \A key \in DOMAIN kv : root = LeafOf(key, kv[key])[1]

C9_Witness ==
    /\ hist.phase = "deletes" /\ hist.fresh /\ hist.clean
    /\ Cardinality(hist.ins) >= 3
    /\ Cardinality(DOMAIN kv) = 1
    /\ last.op = "delete"

\* C10: updates, then a delete of every key that was updated: the root is
\* the placeholder, the all-zero digest.
C10_EmptyAfterDeletingAll ==
    (hist.phase = "deletes" /\ hist.clean /\ DOMAIN kv = {}) =>
        root = zero_hash

C10_Witness ==
    /\ hist.phase = "deletes" /\ hist.clean /\ ~hist.fresh
    /\ Cardinality(hist.ins) >= 3
    /\ DOMAIN kv = {}
    /\ last.op = "delete"

\* The internal node pairing the leaves of two keys of the map m, the leaf of
\* the key whose path has bit 0 at the first divergence on the left.
PairOf(m, k1, k2) ==
    LET p1 == keccak_bytes(tree_hasher_path(k1))
        p2 == keccak_bytes(tree_hasher_path(k2))
        l1 == LeafOf(k1, m[k1])[1]
        l2 == LeafOf(k2, m[k2])[1]
    IN  IF get_msb_at(p1, common_prefix(p1, p2)) = 0
        THEN digest_node(l1, l2) ELSE digest_node(l2, l1)

\* d under j internal nodes with a placeholder sibling, one for each of the
\* bit positions j-1, ..., 0 of path p.
RECURSIVE Bridged(_, _, _)
Bridged(d, p, j) ==
    IF j = 0 THEN d
    ELSE Bridged(IF get_msb_at(p, j - 1) = 0
                 THEN digest_node(d, placeholder)[1]
                 ELSE digest_node(placeholder, d)[1], p, j - 1)

\* C11 (as stated): after two updates of keys with distinct paths on an empty
\* tree the root is the digest of the node pairing the two leaves, with no
\* internal node above it, whatever the common prefix of the paths.
C11_TwoLeavesRootIsPair ==
    (hist.phase = "updates" /\ hist.fresh /\ hist.clean) =>
        \A k1, k2 \in DOMAIN kv :
            (DOMAIN kv = {k1, k2} /\ k1 # k2) => root = PairOf(kv, k1, k2)[1]

\* C11 (amended): after two updates of keys with distinct paths on an empty
\* tree the root is the digest of the node pairing the two leaves when the
\* paths differ in bit 0; when they share c > 0 leading bits, c internal
\* nodes with a placeholder sibling are hashed above the pair, one for each
\* bit of the common prefix, and the root is the digest of the topmost.
C11_TwoLeavesRootIsBridgedPair ==
    (hist.phase = "updates" /\ hist.fresh /\ hist.clean) =>
        \A k1, k2 \in DOMAIN kv :
            (DOMAIN kv = {k1, k2} /\ k1 # k2) =>
                LET p1 == keccak_bytes(tree_hasher_path(k1))
                    p2 == keccak_bytes(tree_hasher_path(k2))
                IN  root = Bridged(PairOf(kv, k1, k2)[1], p1, common_prefix(p1, p2))

\* two keys whose paths share leading bits, the second just inserted
C11_Witness ==
    /\ hist.phase = "updates" /\ hist.fresh /\ hist.clean
    /\ DOMAIN kv = {<<0>>, <<1>>}
    /\ common_prefix(keccak_bytes(tree_hasher_path(<<0>>)),
                     keccak_bytes(tree_hasher_path(<<1>>))) > 0
    /\ last.op = "update" /\ last.term = "other"

\* The digest recomputed by a verifier: from digest d, step i combines with
\* sn[i] (0-based), on the side given by bit Len(sn) - i - 1 of path p.
RECURSIVE Recompute(_, _, _, _)
Recompute(d, sn, p, i) ==
    IF i >= Len(sn) THEN d
    ELSE Recompute(IF get_msb_at(p, Len(sn) - i - 1) = 0
                   THEN digest_node(d, sn[i + 1])[1]
                   ELSE digest_node(sn[i + 1], d)[1], sn, p, i + 1)

\* Where the traversal for key ends in the current state.
TerminalOf(key) == Terminal(Traverse(key), key, DEFAULT_VALUE)

\* The digest a verifier of a proof for key starts from: the leaf digest of
\* the key and its stored value if the key has a leaf, the placeholder if
\* the slot is empty, the non-membership leaf of the proof otherwise.
StartDigest(key, proof) ==
    CASE TerminalOf(key) = "own" ->
             LeafOf(key, values[tree_hasher_path(key)])[1]
      [] TerminalOf(key) = "placeholder" -> placeholder
      [] OTHER -> proof.non_membership_leaf_node

\* C12: the proof generated for any key against the current root verifies
\* against that root: recomputing from the terminal digest with the
\* sidenodes of the proof gives the root.
C12_ProofVerifies ==
    \A key \in Keys :
        LET proof == generate_proof(Self, key, root, 0)
        IN  /\ ~proof.st.err
            /\ TerminalOf(key) = "own" => tree_hasher_path(key) \in DOMAIN values
            /\ Recompute(StartDigest(key, proof), proof.sidenodes,
                         keccak_bytes(tree_hasher_path(key)), 0) = root

\* a proof for a key with a leaf below bridging nodes: a leaf, placeholders
\* and an internal node or a leaf among its sidenodes
C12_Witness ==
    /\ last.op = "proof" /\ last.ok
    /\ TerminalOf(last.key) = "own"
    /\ Len(last.ret[1]) >= 3
    /\ \E i, j \in DOMAIN last.ret[1] :
           i < j /\ last.ret[1][i] = placeholder /\ last.ret[1][j] # placeholder

\* C13: the non-membership leaf of a proof is empty exactly when the
\* traversal ends at a placeholder or at the leaf of the key; when it ends at
\* the leaf of another path it is that terminal node, pathnodes[0]; and the
\* sidenodes of the proof are those of sidenodes(root, path(key)).
C13_NonMembershipLeaf ==
    \A key \in Keys :
        LET proof == generate_proof(Self, key, root, 0)
            t == Traverse(key)
        IN  /\ ~proof.st.err
            /\ proof.sidenodes = t.sn
            /\ (proof.non_membership_leaf_node = <<>>) <=>
                    (TerminalOf(key) \in {"placeholder", "own"})
            /\ TerminalOf(key) = "other" =>
                    /\ proof.non_membership_leaf_node = t.pn[1]
                    /\ proof.non_membership_leaf_node \in DOMAIN nodes
                    /\ is_leaf(nodes[proof.non_membership_leaf_node])

\* a proof for a key whose slot, below the root, holds the leaf of another key
C13_Witness ==
    /\ last.op = "proof" /\ last.ok
    /\ TerminalOf(last.key) = "other"
    /\ last.ret[1] # <<>>
    /\ last.ret[2] = Traverse(last.key).pn[1]

\* The payloads of the reachable leaves whose path shares the longest prefix
\* with the path of key.
NearestLeaves(key) ==
    LET p == keccak_bytes(tree_hasher_path(key))
        L == ReachableLeaves(nodes, root)
        cp(l) == common_prefix(keccak_bytes(parse_leaf(l)[1]), p)
    IN  {l \in L : \A m \in L : cp(m) <= cp(l)}

RECURSIVE Expand(_, _, _, _)
Expand(compact_sidenodes, bitmask, index, n) ==
    IF index >= n THEN <<>>
    ELSE IF index \div 8 < Len(bitmask) /\ get_msb_at(bitmask, index) = 1
         THEN <<placeholder>> \o Expand(compact_sidenodes, bitmask, index + 1, n)
    ELSE <<Head(compact_sidenodes)>>
             \o Expand(Tail(compact_sidenodes), bitmask, index + 1, n)

\* C15: generate_compact_proof succeeds for every key against the current
\* root; bit i of its bitmask is set iff sidenode i of the full proof is the
\* placeholder, its compact sidenodes are the other sidenodes in order, and
\* expanding it gives back the sidenodes of generate_proof.
C15_CompactProofRoundTrip ==
    \A key \in Keys :
        LET proof == generate_proof(Self, key, root, 0)
            c == generate_compact_proof(Self, key, root, 0)
            sn == proof.sidenodes
        IN  /\ ~c.st.err /\ ~c.panic
            /\ \A i \in 0 .. (Len(sn) - 1) :
                   (sn[i + 1] = placeholder) <=>
                       (i \div 8 < Len(c.bitmask) /\ get_msb_at(c.bitmask, i) = 1)
            /\ c.compact_sidenodes = SelectSeq(sn, LAMBDA x : x # placeholder)
            /\ Expand(c.compact_sidenodes, c.bitmask, 0, Len(sn)) = sn

\* C16: update with a zero-length value returns what delete of the key
\* returns in the same state and leaves the node store and the value store
\* as that delete leaves them.
C16_EmptyUpdateIsDelete ==
    [][(last'.op = "update" /\ last'.value = DEFAULT_VALUE) =>
          LET d == delete(Self, last'.key, 0)
          IN  /\ last'.ok = ~d.st.err
              /\ last'.ret = (IF d.st.err THEN <<>> ELSE d.root)
              /\ root' = d.root
              /\ nodes' = d.st.nodes
              /\ values' = d.st.values]_vars

\* an update with a zero-length value that removed the leaf of its key from
\* a tree of several leaves
C16_Witness ==
    /\ last.op = "update" /\ last.value = DEFAULT_VALUE /\ last.ok
    /\ last.term = "own"
    /\ tree_hasher_path(last.key) \notin DOMAIN values
    /\ Cardinality(ReachableLeaves(nodes, root)) >= 1
    /\ last.ret = root

\* C17: an update or delete during which a store call fails returns an error
\* and leaves the root as it was, whichever call of the operation fails:
\* one of the traversal or one of the mutation.  (hist.clean turns false in
\* the step in which a store call fails.)
C17_FailedCallKeepsRoot ==
    [][(hist.clean /\ ~hist'.clean) =>
          /\ last'.op \in {"update", "delete"}
          /\ ~last'.ok
          /\ last'.ret = <<>>
          /\ root' = root]_vars

\* an update that failed after it had deleted the record of the root: the
\* root is kept and has no record
C17_Witness ==
    /\ last.op = "update" /\ ~last.ok
    /\ last.term = "other"
    /\ root # placeholder
    /\ root \notin DOMAIN nodes
    /\ DOMAIN nodes # {}

\* The digests reachable from digest d in the node store: d and, for an
\* internal node, what is reachable from its children.
RECURSIVE Reachable(_, _)
Reachable(store, d) ==
    IF d = placeholder \/ d \notin DOMAIN store \/ is_leaf(store[d]) THEN {d}
    ELSE {d} \cup Reachable(store, parse_node(store[d])[1])
             \cup Reachable(store, parse_node(store[d])[2])

IsLeafPayload(p) ==
    /\ Len(p) = 3 /\ p[1] = LEAF_PREFIX
    /\ p[2] \in {tree_hasher_path(k) : k \in Keys}
    /\ p[3] \in {digest(v) : v \in Values}

\* the children of an internal payload are digests of payloads or the
\* placeholder (never the digest of a key or of a value)
IsInternalPayload(p) ==
    /\ Len(p) = 3 /\ p[1] = NODE_PREFIX
    /\ \A c \in {p[2], p[3]} :
           c = placeholder \/ (c[1] = "keccak" /\ Len(c[2]) = 3)

\* C18: every record (d, p) of the node store has d = H(p), and p is a leaf
\* payload 0x00 || path || value hash or an internal payload
\* 0x01 || left || right.
C18_ContentAddressing ==
    \A d \in DOMAIN nodes :
        /\ d = hash(nodes[d])
        /\ IsLeafPayload(nodes[d]) \/ IsInternalPayload(nodes[d])

\* leaves, bridging nodes and an internal node above them are stored after
\* a delete
C18_Witness ==
    /\ last.op = "delete" /\ last.ok
    /\ \E d \in DOMAIN nodes : IsLeafPayload(nodes[d])
    /\ \E d \in DOMAIN nodes :
           IsInternalPayload(nodes[d]) /\ placeholder \in {nodes[d][2], nodes[d][3]}
    /\ Cardinality(DOMAIN nodes) >= 4

\* d is the digest of a stored leaf
IsLeafDigest(d) == d \in DOMAIN nodes /\ is_leaf(nodes[d])

\* C19: after successful updates and deletes no internal node reachable from
\* the root has a placeholder as one child and a leaf or a placeholder as
\* the other, and a tree in which one leaf is reachable has the digest of
\* that leaf as its root.
C19_CollapsedLeaves ==
    hist.clean =>
        /\ \A d \in Reachable(nodes, root) :
               (d \in DOMAIN nodes /\ ~is_leaf(nodes[d])) =>
                   LET l == parse_node(nodes[d])[1]
                       r == parse_node(nodes[d])[2]
                   IN  /\ ~(l = placeholder /\ (r = placeholder \/ IsLeafDigest(r)))
                       /\ ~(r = placeholder /\ (l = placeholder \/ IsLeafDigest(l)))
        /\ Cardinality(ReachableLeaves(nodes, root)) = 1 => IsLeafDigest(root)

\* a delete left a leaf next to an internal node, or bridging nodes above a
\* pair of leaves
C19_Witness ==
    /\ hist.clean /\ last.op = "delete" /\ last.ok /\ last.term = "own"
    /\ Cardinality(ReachableLeaves(nodes, root)) = 2
    /\ \E d \in Reachable(nodes, root) :
           d \in DOMAIN nodes /\ placeholder \in {nodes[d][2], nodes[d][3]}

\* C20: after successful updates and deletes every digest reachable from the
\* root other than the placeholder has a record in the node store, and the
\* traversal sidenodes(root, path) fails for no path.
C20_NoDanglingDigest ==
    hist.clean =>
        /\ \A d \in Reachable(nodes, root) : d = placeholder \/ d \in DOMAIN nodes
        /\ \A key \in Keys : ~Traverse(key).st.err

\* an update paired its leaf with the leaf found, below an internal node
\* whose record was deleted and written again
C20_Witness ==
    /\ hist.clean /\ last.op = "update" /\ last.ok /\ last.term = "other"
    /\ Cardinality(ReachableLeaves(nodes, root)) >= 3
    /\ Cardinality(Reachable(nodes, root)) >= 5

\* C21: for the root of every reachable state and the path of every key,
\* sidenodes(root, path) returns one pathnode more than sidenodes and at most
\* depth sidenodes; the last pathnode is the root; the first pathnode is the
\* placeholder or the digest of a stored leaf; sidenodes[i] and pathnodes[i]
\* are the two children of the stored internal node pathnodes[i+1], the
\* pathnode on the side the bit of the path at that level selects; and the
\* payload returned is non-empty exactly when the first pathnode is a leaf,
\* whose payload it then is.
C21_TraversalShape ==
    \A key \in Keys :
        LET t == Traverse(key)
            p == tree_hasher_path(key)
            n == Len(t.sn)
        IN  /\ ~t.st.err
            /\ Len(t.pn) = n + 1
            /\ n <= depth
            /\ t.pn[n + 1] = root
            /\ t.pn[1] = placeholder \/ IsLeafDigest(t.pn[1])
            /\ \A i \in 1 .. n :
                   /\ t.pn[i + 1] \in DOMAIN nodes
                   /\ ~is_leaf(nodes[t.pn[i + 1]])
                   /\ parse_node(nodes[t.pn[i + 1]]) =
                          IF get_msb_at(keccak_bytes(p), n - i) = 0
                          THEN <<t.pn[i], t.sn[i]>>
                          ELSE <<t.sn[i], t.pn[i]>>
            /\ (t.node # DEFAULT_VALUE) <=> IsLeafDigest(t.pn[1])
            /\ IsLeafDigest(t.pn[1]) => t.node = nodes[t.pn[1]]

\* after a delete one traversal ends at a placeholder below the root, which
\* is an internal node, and another at a leaf three levels or more below it
C21_Witness ==
    /\ last.op = "delete" /\ last.ok
    /\ \E key \in Keys :
          Len(Traverse(key).sn) >= 1 /\ Traverse(key).pn[1] = placeholder
    /\ \E key \in Keys :
          Len(Traverse(key).sn) >= 3 /\ IsLeafDigest(Traverse(key).pn[1])

\* The keys of the internal nodes inserted by the calls, in the order of the
\* calls.
InternalInserts(calls) ==
    LET ins == SelectSeq(calls, LAMBDA c : /\ c.store = "nodes" /\ c.op = "insert"
                                            /\ ~is_leaf(c.v))
    IN  [j \in DOMAIN ins |-> ins[j].k]

\* The digest of the internal node at the level of bit `bit` of path p with
\* `child` on the side of p and `sibling` on the other side.
Above(p, bit, child, sibling) ==
    IF get_msb_at(keccak_bytes(p), bit) = 0
    THEN digest_node(child, sibling)[1]
    ELSE digest_node(sibling, child)[1]

\* The digests of the nodes above `child` on path p, bottom-up, one for each
\* sibling, the first at the level of bit `bit`.
RECURSIVE Chain(_, _, _, _)
Chain(p, child, siblings, bit) ==
    IF siblings = <<>> THEN <<>>
    ELSE LET d == Above(p, bit, child, Head(siblings))
         IN  <<d>> \o Chain(p, d, Tail(siblings), bit - 1)

\* The internal nodes update(key, value) hashes according to the claim, for
\* the traversal t of the key that ended as `term` says.  In Case A: the node
\* pairing the two leaves at the level of their first differing bit, one node
\* with a placeholder sibling for each bit position in
\* [len(sidenodes), common_prefix_len), then one node for each sidenode.
\* Otherwise one node for each sidenode; rehashed tells whether this holds of
\* an update that finds the value hash it writes.
HashedNodes(key, value, t, term, rehashed) ==
    LET p == tree_hasher_path(key)
        n == Len(t.sn)
        leaf == LeafOf(key, value)[1]
        cpl == common_prefix(keccak_bytes(parse_leaf(t.node)[1]), keccak_bytes(p))
        pair == Above(p, cpl, leaf, t.pn[1])
        bridge == [j \in 1 .. cpl - n |-> placeholder]
    IN  CASE term = "other" -> <<pair>> \o Chain(p, pair, bridge \o t.sn, cpl - 1)
          [] term = "same" /\ ~rehashed -> <<>>
          [] OTHER -> Chain(p, leaf, t.sn, n - 1)

\* C22 as stated: also the update whose traversal ends at the leaf of the
\* same path holding the same value hash hashes len(sidenodes) internal nodes.
C22_HashedNodesEveryUpdate ==
    [][(last'.op = "update" /\ last'.ok) =>
          \A call \in {last'} : \A r \in {update(Self, call.key, call.value, 0)} :
              InternalInserts(r.st.calls)
                  = HashedNodes(call.key, call.value, r.t, call.term, TRUE)]_vars

\* C22: an update hashes placeholder siblings that the traversal did not
\* return only in Case A (the traversal ended at the leaf of another path):
\* above the node pairing the two leaves it hashes exactly
\* common_prefix_len - len(sidenodes) nodes with a placeholder sibling, one
\* for each bit position in [len(sidenodes), common_prefix_len), and then one
\* node for each sidenode.  When the traversal ended at a placeholder or at
\* the leaf of the same path with another value hash, exactly len(sidenodes)
\* internal nodes are hashed, one for each sidenode; when that leaf holds the
\* value hash of the update, no internal node is hashed.
C22_HashedNodes ==
    [][(last'.op = "update" /\ last'.ok) =>
          \A call \in {last'} : \A r \in {update(Self, call.key, call.value, 0)} :
              InternalInserts(r.st.calls)
                  = HashedNodes(call.key, call.value, r.t, call.term, FALSE)]_vars

\* an update paired its leaf with a leaf found one level below the root: five
\* nodes with a placeholder sibling lie between the pair and the root
C22_Witness ==
    /\ last.op = "update" /\ last.ok /\ last.term = "other"
    /\ Cardinality(ReachableLeaves(nodes, root)) = 3
    /\ \E key \in Keys :
          LET t == Traverse(key)
          IN  /\ key = last.key
              /\ Len(t.sn) = 7
              /\ \A i \in 2 .. 6 : t.sn[i] = placeholder
              /\ t.sn[7] # placeholder

\* The insert and delete calls as <<store, op, key>>, in the order issued.
WriteOrder(calls) ==
    LET w == Writes(calls) IN [j \in DOMAIN w |-> <<w[j].store, w[j].op, w[j].k>>]

\* The calls delete the pathnodes pn[from], pn[from + 1], ... in this order.
DeletesOf(pn, from) ==
    [j \in 1 .. Len(pn) - from + 1 |-> <<"nodes", "delete", pn[from + j - 1]>>]

\* Every call of w is the insert of an internal node that has the node
\* inserted by the call before it as a child.
BottomUp(w) ==
    /\ \A j \in DOMAIN w :
           w[j].store = "nodes" /\ w[j].op = "insert" /\ ~is_leaf(w[j].v)
    /\ \A j \in 2 .. Len(w) : w[j - 1].k \in {w[j].v[2], w[j].v[3]}

\* The order of the steps of section 4.4.2 for update(key, value) after the
\* traversal t that ended as `term` says.
UpdateOrder(calls, key, value, t, term) ==
    LET p == tree_hasher_path(key)
        leaf == <<"nodes", "insert", LeafOf(key, value)[1]>>
        hashed == HashedNodes(key, value, t, term, FALSE)
        inserts == [j \in DOMAIN hashed |-> <<"nodes", "insert", hashed[j]>>]
        written == <<<<"values", "insert", p>>>>
    IN  WriteOrder(calls) =
          CASE term = "same" -> <<leaf>>
            [] term = "other" ->
                 <<leaf, Head(inserts)>> \o DeletesOf(t.pn, 2)
                     \o Tail(inserts) \o written
            [] term = "own" ->
                 <<leaf, <<"nodes", "delete", t.pn[1]>>, <<"values", "delete", p>>>>
                     \o DeletesOf(t.pn, 2) \o inserts \o written
            [] OTHER -> <<leaf>> \o DeletesOf(t.pn, 2) \o inserts \o written

\* The order of the steps of section 4.4.3 for delete(key) after the
\* traversal t.
DeleteOrder(calls, key, t) ==
    LET p == tree_hasher_path(key)
        w == Writes(calls)
        n == Len(t.pn)
    IN  IF t.pn[1] = placeholder THEN w = <<>>
        ELSE /\ Len(w) >= n + 1
             /\ SubSeq(WriteOrder(calls), 1, n) = DeletesOf(t.pn, 1)
             /\ BottomUp(SubSeq(w, n + 1, Len(w) - 1))
             /\ WriteOrder(calls)[Len(w)] = <<"values", "delete", p>>

\* C23: within one successful mutation the inserts and deletes are issued in
\* the order of the steps.  update: the new leaf; in Case A the node pairing
\* the two leaves; for the same path with another value the delete of the old
\* leaf and of the old value record; the deletes of pathnodes[1], [2], ...;
\* the inserts of the rehashed internal nodes bottom-up; the value record
\* last (an update that finds its value hash stops after the new leaf).
\* delete: the deletes of pathnodes[0], [1], ...; the inserts of the rehashed
\* internal nodes bottom-up; the delete of the value record last (no call
\* when the traversal ended at a placeholder).
C23_StoreCallOrder ==
    [][(last'.op \in {"update", "delete"} /\ last'.ok) =>
          \A call \in {last'} :
              IF call.op = "update"
              THEN \A r \in {update(Self, call.key, call.value, 0)} :
                       UpdateOrder(r.st.calls, call.key, call.value, r.t, call.term)
              ELSE \A r \in {delete(Self, call.key, 0)} :
                       DeleteOrder(r.st.calls, call.key, r.t)]_vars

\* a delete removed a leaf three levels or more below the root and left an
\* internal root
C23_Witness ==
    /\ last.op = "delete" /\ last.ok /\ last.term = "own"
    /\ root \in DOMAIN nodes /\ ~is_leaf(nodes[root])
    /\ \E key \in Keys : Len(Traverse(key).sn) >= 3

\* data extended with zero bytes to n bytes (data itself when it has n bytes
\* or more)
Grown(data, n) ==
    [j \in 1 .. (IF Len(data) >= n THEN Len(data) ELSE n) |->
        IF j <= Len(data) THEN data[j] ELSE 0]

\* C24: set_bit(data, i) succeeds for every byte string and every position:
\* the result is data, extended with zero bytes to ceil((i + 1) / 8) bytes if
\* it was shorter, with bit i (MSB first) set and every other bit unchanged.
C24_SetBitGrows ==
    last.op = "set_msb_at" =>
        LET data == last.key
            i == last.value[1]
            grown == Grown(data, (i \div 8) + 1)
        IN  /\ last.ok
            /\ Len(last.ret) = Len(grown)
            /\ \A b \in 0 .. (8 * Len(grown) - 1) :
                   get_msb_at(last.ret, b) = IF b = i THEN 1 ELSE get_msb_at(grown, b)

\* The tree after update(key, value) followed immediately by delete(key).
UpdateThenDelete(self, key, value) ==
    LET d == delete(After(self, key, value), key, 0)
    IN  [root |-> d.root, nodes |-> d.st.nodes, values |-> d.st.values]

\* C25: in every reachable state, update(k, v) for a key k that has no leaf
\* in the tree followed immediately by delete(k) restores the root, the node
\* store and the value store to what they were before the update.
C25_UpdateThenDeleteRestores ==
    \A key \in Keys :
        TerminalOf(key) \in {"placeholder", "other"} =>
            \A value \in Values : UpdateThenDelete(Self, key, value) = Self

\* C26: after successful updates and deletes the node store holds no orphan:
\* every key of the node store is a digest reachable from the root (the old
\* leaf of a rewritten or deleted key and the internal nodes of the old path
\* are gone).
C26_NoOrphanRecord ==
    hist.clean => DOMAIN nodes \subseteq Reachable(nodes, root)

\* an update gave the leaf of its key another value below four internal
\* nodes or more, next to the leaves of two other keys
C26_Witness ==
    /\ hist.clean /\ last.op = "update" /\ last.ok /\ last.term = "own"
    /\ Cardinality(ReachableLeaves(nodes, root)) = 3
    /\ Cardinality(DOMAIN nodes) >= 7

====
